---- MODULE Spec2Model ----
(***************************************************************************)
(* A model of imaging_mod.py: the camera class (pose, rotation matrix,     *)
(* get_r, projection, save, load) and img_system.stereo_match.             *)
(*                                                                         *)
(* Numbers.  Every float of the program is modelled on the lattice of      *)
(* halves: the integer v stands for the float v/2, so 2 is 1.0 and 5 is    *)
(* 2.5.  Angles are counted in quarter turns (theta = 1.0 is one quarter   *)
(* turn), where cos and sin are the exact integers -1, 0, 1.  Quotients    *)
(* are exact rationals [n, d] in lowest terms.  Rounding of floating-point *)
(* arithmetic is outside the model.                                        *)
(***************************************************************************)
EXTENDS Integers, Sequences, FiniteSets, TLC

VARIABLES
    cams,   \* img_system.cameras: the list of camera objects (Python
            \* index c is position c + 1)
    disk,   \* the files written by camera.save, one per camera name
    args,   \* the arguments of the stereo_match call of this behaviour
    last    \* the last operation: its inputs, what it read, its outcome

vars == <<cams, disk, args, last>>

\* ------------------------------------------------------------------ bounds
NCams == 3      \* cameras in the system
MaxN == 3       \* most observations (entries of coords) in one call
MaxD == 1       \* closest-approach distances and d_max range over 0..MaxD

CamIds == 0 .. (NCams - 1)          \* the Python indices of the cameras
ObsKeys == 0 .. NCams               \* coords keys: NCams resolves to no camera
KeySet == (-1) .. NCams             \* the same with -1, which Python resolves
                                    \* to the last camera of the list

\* ------------------------------------------------------ vectors, matrices
Abs(n) == IF n < 0 THEN -n ELSE n

RECURSIVE GCDNat(_, _)
GCDNat(a, b) == IF b = 0 THEN a ELSE GCDNat(b, a % b)

GCD(a, b) == GCDNat(Abs(a), Abs(b))

\* the exact quotient n/d, d # 0, in lowest terms with a positive denominator
Rat(n, d) ==
    LET g == GCD(n, d)
        s == IF d < 0 THEN -1 ELSE 1
    IN  [n |-> s * (n \div g), d |-> s * (d \div g)]

VecSub(u, w) == <<u[1] - w[1], u[2] - w[2], u[3] - w[3]>>
VecAdd(u, w) == <<u[1] + w[1], u[2] + w[2], u[3] + w[3]>>

Cross(u, w) ==
    << u[2] * w[3] - u[3] * w[2],
       u[3] * w[1] - u[1] * w[3],
       u[1] * w[2] - u[2] * w[1] >>

\* numpy.dot of a row vector and a matrix
VecMat(v, M) ==
    LET col(j) == v[1] * M[1][j] + v[2] * M[2][j] + v[3] * M[3][j]
    IN  <<col(1), col(2), col(3)>>

\* numpy.dot of two matrices
MatMul(A, B) == <<VecMat(A[1], B), VecMat(A[2], B), VecMat(A[3], B)>>

Det3(M) ==
      M[1][1] * (M[2][2] * M[3][3] - M[2][3] * M[3][2])
    - M[1][2] * (M[2][1] * M[3][3] - M[2][3] * M[3][1])
    + M[1][3] * (M[2][1] * M[3][2] - M[2][2] * M[3][1])

\* numpy.linalg.inv: the adjugate over the determinant (exact here, where
\* the determinant of a stored rotation matrix is 1)
Inv(M) ==
    LET nx(i) == (i % 3) + 1
        cof(i, j) == M[nx(i)][nx(j)] * M[nx(nx(i))][nx(nx(j))]
                   - M[nx(i)][nx(nx(j))] * M[nx(nx(i))][nx(j)]
        row(i) == <<cof(1, i) \div Det3(M), cof(2, i) \div Det3(M),
                    cof(3, i) \div Det3(M)>>
    IN  <<row(1), row(2), row(3)>>

\* cos and sin of an angle of t/2 quarter turns, t even
Cos(t) == <<1, 0, -1, 0>>[((t \div 2) % 4) + 1]
Sin(t) == <<0, 1, 0, -1>>[((t \div 2) % 4) + 1]

\* ------------------------------------------------------------------ camera
\* camera.calc_R, as a function of the angles: R = Rx . Ry . Rz
RotMatOf(theta) ==
    LET tx == theta[1]
        ty == theta[2]
        tz == theta[3]
        Rx == << <<1, 0, 0>>,
                 <<0, Cos(tx), -Sin(tx)>>,
                 <<0, Sin(tx), Cos(tx)>> >>
        Ry == << <<Cos(ty), 0, Sin(ty)>>,
                 <<0, 1, 0>>,
                 <<-Sin(ty), 0, Cos(ty)>> >>
        Rz == << <<Cos(tz), -Sin(tz), 0>>,
                 <<Sin(tz), Cos(tz), 0>>,
                 <<0, 0, 1>> >>
    IN  MatMul(MatMul(Rx, Ry), Rz)

\* the angles a camera takes in the model: the constructor's and those
\* assigned from outside
AllThetas == { <<2, 2, 2>>, <<0, 0, 0>>, <<2, 0, 0>> }

\* RotMatOf tabulated over AllThetas, so that it is computed once
RotTable == [th \in AllThetas |-> RotMatOf(th)]

RotMat(theta) == RotTable[theta]

\* a plausible slip in calc_R: the three rotations multiplied in the
\* opposite order
calc_R_reversed(cam) ==
    LET tx == cam.theta[1]
        ty == cam.theta[2]
        tz == cam.theta[3]
        Rx == << <<1, 0, 0>>,
                 <<0, Cos(tx), -Sin(tx)>>,
                 <<0, Sin(tx), Cos(tx)>> >>
        Ry == << <<Cos(ty), 0, Sin(ty)>>,
                 <<0, 1, 0>>,
                 <<-Sin(ty), 0, Cos(ty)>> >>
        Rz == << <<Cos(tz), -Sin(tz), 0>>,
                 <<Sin(tz), Cos(tz), 0>>,
                 <<0, 0, 1>> >>
    IN  [cam EXCEPT !.R = MatMul(MatMul(Rz, Ry), Rx)]

\* camera.calc_R: self.R = dot(dot(Rx, Ry), Rz)
calc_R(cam) == [cam EXCEPT !.R = RotMat(cam.theta)]

\* camera.__init__ without calibration points: O = theta = (1., 1., 1.),
\* f = 1.0, then calc_R(), then the resolution and the name
NewCamera(name, resolution) ==
    calc_R([ O |-> <<2, 2, 2>>,
             theta |-> <<2, 2, 2>>,
             f |-> 2,
             R |-> << <<1, 0, 0>>, <<0, 1, 0>>, <<0, 0, 1>> >>,
             resolution |-> resolution,
             name |-> name ])

\* a pixel: eta = e/d and zeta = z/d halves, in lowest terms; d = 0 stands
\* for the non-finite pair numpy gives on a division by zero
Pixel(e, z, d) ==
    IF d = 0 THEN [e |-> 0, z |-> 0, d |-> 0]
    ELSE LET g == GCD(GCD(e, z), d)
             s == IF d < 0 THEN -1 ELSE 1
         IN  [e |-> s * (e \div g), z |-> s * (z \div g), d |-> s * (d \div g)]

\* get_r without its first statement: the matrix is read as it is stored
get_r_no_refresh(cam, px) ==
    LET eta_ == px.e - cam.resolution[1] * px.d
        zeta_ == px.z - cam.resolution[2] * px.d
    IN  [ cam |-> cam,
          Rread |-> cam.R,
          r |-> [num |-> VecMat(<<-eta_, -zeta_, -cam.f * px.d>>, cam.R),
                 den |-> px.d] ]

\* camera.get_r(eta, zeta): calc_R(), the pixel centred on resolution/2.0,
\* then r = dot((-eta_, -zeta_, -f), R).  The camera is returned with its
\* refreshed matrix; the direction is r.num / r.den.
get_r(cam, px) ==
    LET c1 == calc_R(cam)
        eta_ == px.e - c1.resolution[1] * px.d
        zeta_ == px.z - c1.resolution[2] * px.d
    IN  [ cam |-> c1,
          Rread |-> c1.R,
          r |-> [num |-> VecMat(<<-eta_, -zeta_, -c1.f * px.d>>, c1.R),
                 den |-> px.d] ]

\* resolution[i]/2 in halves: a true division under Python 3, the floor
\* division of two ints under Python 2 (the interpreter the file names)
HalfRes(n, py) == IF py = 2 THEN 2 * (n \div 2) ELSE n

\* camera.projection(x): v = dot(x - O, inv(R)); a = -v[2]/f;
\* eta = -v[0]/a + resolution[0]/2; zeta = -v[1]/a + resolution[1]/2.
\* In halves eta = v[0]*f/v[2] + resolution[0]/2.  R is read as stored.
projection(cam, x, py) ==
    LET v == VecMat(VecSub(x, cam.O), Inv(cam.R))
    IN  [ cam |-> cam,
          Rread |-> cam.R,
          ret |-> Pixel(v[1] * cam.f + HalfRes(cam.resolution[1], py) * v[3],
                        v[2] * cam.f + HalfRes(cam.resolution[2], py) * v[3],
                        v[3]) ]

\* ------------------------------------------------------------- text, files
Digit == <<"0", "1", "2", "3", "4", "5", "6", "7", "8", "9">>

IsDigit(c) == \E i \in 1..10 : Digit[i] = c
DigitVal(c) == (CHOOSE i \in 1..10 : Digit[i] = c) - 1

RECURSIVE NatStr(_)
NatStr(n) == IF n < 10 THEN <<Digit[n + 1]>>
             ELSE Append(NatStr(n \div 10), Digit[(n % 10) + 1])

\* str(x) of the float v/2: sign, integer part, ".", "0" or "5"
Str(v) ==
    (IF v < 0 THEN <<"-">> ELSE <<>>)
        \o NatStr(Abs(v) \div 2)
        \o <<".", IF Abs(v) % 2 = 1 THEN "5" ELSE "0">>

RECURSIVE NatVal(_)
NatVal(s) == IF s = <<>> THEN 0
             ELSE 10 * NatVal(SubSeq(s, 1, Len(s) - 1)) + DigitVal(s[Len(s)])

\* float(s): an optional sign, digits, an optional point and digits, at
\* least one digit in all; anything else is ValueError.  Of the fractions
\* only .0 and .5 are on the lattice of halves.
Float(s) ==
    LET neg == Len(s) >= 1 /\ s[1] = "-"
        body == IF neg THEN SubSeq(s, 2, Len(s)) ELSE s
        dots == {i \in 1..Len(body) : body[i] = "."}
        dot == IF dots = {} THEN Len(body) + 1
               ELSE CHOOSE i \in dots : \A j \in dots : i <= j
        ip == SubSeq(body, 1, dot - 1)
        fp == SubSeq(body, dot + 1, Len(body))
        wellFormed ==
            /\ \A i \in 1..Len(ip) : IsDigit(ip[i])
            /\ fp \in {<<>>, <<"0">>, <<"5">>}
            /\ Len(ip) + Len(fp) >= 1
        mag == 2 * NatVal(ip) + (IF fp = <<"5">> THEN 1 ELSE 0)
    IN  IF wellFormed THEN [ok |-> TRUE, val |-> IF neg THEN -mag ELSE mag]
        ELSE [ok |-> FALSE, val |-> 0]

IsSpace(c) == c \in {" ", "\n"}

\* S.split(): the maximal runs of non-blank characters
RECURSIVE Split(_)
Split(s) ==
    IF s = <<>> THEN <<>>
    ELSE IF IsSpace(s[1]) THEN Split(Tail(s))
    ELSE LET ends == {i \in 1..Len(s) : IsSpace(s[i])}
             stop == IF ends = {} THEN Len(s) + 1
                     ELSE CHOOSE i \in ends : \A j \in ends : i <= j
         IN  <<SubSeq(s, 1, stop - 1)>> \o Split(SubSeq(s, stop, Len(s)))

\* f.readline() at offset pos (1-based): the text up to and including the
\* next newline, or the rest of the file
ReadLine(text, pos) ==
    LET nls == {i \in pos..Len(text) : text[i] = "\n"}
        stop == IF nls = {} THEN Len(text)
                ELSE CHOOSE i \in nls : \A j \in nls : i <= j
    IN  SubSeq(text, pos, stop)

\* s[:-2]
DropLast2(s) == SubSeq(s, 1, Len(s) - 2)

\* the loop of save: S = '' ; for s in vec: S += str(s) + ' '
VecStr(vec) == Str(vec[1]) \o <<" ">> \o Str(vec[2]) \o <<" ">>
               \o Str(vec[3]) \o <<" ">>

\* camera.save: the text written to the file named after the camera
SaveText(cam) ==
    cam.name \o <<"\n">>
        \o VecStr(cam.O) \o <<"\n">>
        \o VecStr(cam.theta) \o <<"\n">>
        \o Str(cam.f)

\* [float(s) for s in S.split()] of a three-number line
FloatVec(S) ==
    LET toks == Split(S)
        vals == [i \in 1..Len(toks) |-> Float(toks[i])]
    IN  IF Len(toks) = 3 /\ \A i \in 1..3 : vals[i].ok
        THEN [ok |-> TRUE, val |-> <<vals[1].val, vals[2].val, vals[3].val>>]
        ELSE [ok |-> FALSE, val |-> <<0, 0, 0>>]

\* camera.load: the name line is read and dropped; O, theta and f are each
\* parsed from readline()[:-2] and assigned in turn, so a ValueError leaves
\* the earlier assignments in place and calc_R() uncalled
load(cam, text) ==
    LET l1 == ReadLine(text, 1)
        l2 == ReadLine(text, Len(l1) + 1)
        l3 == ReadLine(text, Len(l1) + Len(l2) + 1)
        l4 == ReadLine(text, Len(l1) + Len(l2) + Len(l3) + 1)
        O == FloatVec(DropLast2(l2))
        theta == FloatVec(DropLast2(l3))
        f == Float(DropLast2(l4))
    IN  IF ~O.ok THEN [cam |-> cam, err |-> "ValueError"]
        ELSE IF ~theta.ok
            THEN [cam |-> [cam EXCEPT !.O = O.val], err |-> "ValueError"]
        ELSE IF ~f.ok
            THEN [cam |-> [cam EXCEPT !.O = O.val, !.theta = theta.val],
                  err |-> "ValueError"]
        ELSE [cam |-> calc_R([cam EXCEPT !.O = O.val, !.theta = theta.val,
                                         !.f = f.val]),
              err |-> "none"]

\* ------------------------------------------------------------ stereo_match
Range(s) == {s[i] : i \in 1..Len(s)}

\* the unordered pairs of distinct elements of S
UPairs(S) == {p \in SUBSET S : Cardinality(p) = 2}

\* utils.line_dist(O1, r1, O2, r2) -> (D, x_ij).  Its source is not in
\* imaging_mod.py; by its description it is the distance between the two
\* lines and the midpoint of their closest points, hence a function of the
\* unordered pair of rays.  The rays of a call are named by their keys, and
\* ld gives each unordered pair its (D, X).
line_dist(ld, ki, kj) == ld[{ki, kj}]

\* self.cameras[k] on a list of n cameras with every index wrapped around
LookupWrap(k, n) == [ok |-> TRUE, idx |-> k % n]

\* self.cameras[k] on a list of n cameras: -n..-1 count from the end, and
\* anything outside -n..n-1 raises IndexError
Lookup(k, n) ==
    IF -n <= k /\ k < n
    THEN [ok |-> TRUE, idx |-> IF k >= 0 THEN k ELSE n + k]
    ELSE [ok |-> FALSE, idx |-> 0]

RetainStrict(D, d_max) == D < d_max

\* if D <= d_max
Retain(D, d_max) == D <= d_max

AppendFirstCam(cm, ki, kj) == Append(cm, ki)

\* cams.append(ki); cams.append(kj)
AppendCams(cm, ki, kj) == Append(Append(cm, ki), kj)

RowPairs(i, hi) == [t \in 1..(hi - i) |-> <<i, i + t>>]

RECURSIVE PairsFrom(_, _, _)
PairsFrom(i, N, hi) ==
    IF i > N THEN <<>> ELSE RowPairs(i, hi) \o PairsFrom(i + 1, N, hi)

\* the inner loop one short: for j in range(i+1, N-1)
PairSeqShort(N) == PairsFrom(1, N, N - 1)

\* for i in range(N): for j in range(i+1, N): the (i, j) visited, in order
\* (1-based)
PairSeq(N) == PairsFrom(1, N, N)

\* one pass of the loop body for the pair ij of positions
Body(a, st, ij) ==
    LET n == Len(st.cams)
        ki == a.keys[ij[1]]
        kj == a.keys[ij[2]]
        c1 == Lookup(ki, n)
        c2 == Lookup(kj, n)
        g1 == get_r(st.cams[c1.idx + 1], a.coords[ki])
        cams1 == [st.cams EXCEPT ![c1.idx + 1] = g1.cam]
        g2 == get_r(cams1[c2.idx + 1], a.coords[kj])
        cams2 == [cams1 EXCEPT ![c2.idx + 1] = g2.cam]
        res == line_dist(a.ld, ki, kj)
        keep == Retain(res.D, a.d_max)
    IN  IF ~c1.ok THEN [st EXCEPT !.err = "IndexError"]
        ELSE IF ~c2.ok THEN [st EXCEPT !.cams = cams1, !.err = "IndexError"]
        ELSE [ cams |-> cams2,
               calls |-> Append(st.calls, <<ki, kj>>),
               x |-> IF keep THEN Append(st.x, res.X) ELSE st.x,
               cm |-> IF keep THEN AppendCams(st.cm, ki, kj) ELSE st.cm,
               d |-> IF keep THEN Append(st.d, res.D) ELSE st.d,
               err |-> "none" ]

\* the double loop: the body over the pairs in order, stopping at an
\* exception (each intermediate state is bound, so it is evaluated once)
RECURSIVE Loop(_, _, _, _)
Loop(a, st, pairs, p) ==
    IF p > Len(pairs) \/ st.err # "none" THEN st
    ELSE CHOOSE out \in { Loop(a, nxt, pairs, p + 1) :
                            nxt \in {Body(a, st, pairs[p])} } : TRUE

RECURSIVE SumSeq(_)
SumSeq(s) == IF s = <<>> THEN 0 ELSE s[1] + SumSeq(Tail(s))

RECURSIVE SumVecSeq(_)
SumVecSeq(s) == IF s = <<>> THEN <<0, 0, 0>> ELSE VecAdd(s[1], SumVecSeq(Tail(s)))

NoneRet == [kind |-> "none"]

FoundRet(X, ids, dist) == [kind |-> "found", X |-> X, cams |-> ids, dist |-> dist]

\* v / n, component by component
VecOver(v, n) == <<Rat(v[1], n), Rat(v[2], n), Rat(v[3], n)>>

\* the means taken over the cameras named instead of over the pairs kept
ResultOverCams(x, cm, d) ==
    IF Len(x) >= 1
    THEN FoundRet(VecOver(SumVecSeq(x), Cardinality(Range(cm))), Range(cm),
                  Rat(SumSeq(d), Cardinality(Range(cm))))
    ELSE NoneRet

\* the first crossing kept is returned instead of the average
ResultFirst(x, cm, d) ==
    IF Len(x) >= 1
    THEN FoundRet(VecOver(x[1], 1), {cm[1], cm[2]}, Rat(d[1], 1))
    ELSE NoneRet

\* if len(x)>=1: return sum(x)/1.0/len(x), set(cams), sum(d)/1.0/len(x)
\* else: return None
Result(x, cm, d) ==
    IF Len(x) >= 1
    THEN FoundRet(VecOver(SumVecSeq(x), Len(x)), Range(cm),
                  Rat(SumSeq(d), Len(x)))
    ELSE NoneRet

\* img_system.stereo_match(coords, d_max) on the camera list `cameras`
\* (a sequence; Python index k is position k + 1).  a.keys is
\* list(coords.keys()), in the mapping's iteration order.
stereo_match(cameras, a) ==
    LET N == Len(a.keys)
        st0 == [cams |-> cameras, calls |-> <<>>, x |-> <<>>, cm |-> <<>>,
                d |-> <<>>, err |-> "none"]
        Outcome(st) ==
            [ cams |-> st.cams,
              calls |-> st.calls,
              out |-> IF st.err = "none" THEN "return" ELSE "raise",
              err |-> st.err,
              ret |-> IF st.err = "none" THEN Result(st.x, st.cm, st.d)
                      ELSE [kind |-> "raised"] ]
    IN  CHOOSE out \in { Outcome(st) : st \in {Loop(a, st0, PairSeq(N), 1)} } : TRUE

\* ------------------------------------------------------------ input domains
ThetaSet == AllThetas \ { <<2, 2, 2>> }                 \* angles set from outside
PoseThetas == AllThetas \ { <<0, 0, 0>> }
OSet == { <<20, -1, 0>> }                               \* positions set from outside
FSet == { 3 }                                           \* focal depths set: 1.5
ResSet == { <<10, 10>>, <<11, 10>> }                    \* resolutions, even and odd
ObsPix == { Pixel(14, 8, 1) }                           \* an observed pixel, (7, 4)
LabPoints == { <<6, 2, 12>>, <<2, 2, 8>> }              \* lab points projected
PyVersions == { 2, 3 }                                  \* interpreters that run the file
SoloCams == { 0 }                                       \* the camera driven on its own

CamName(c) == <<"c", "a", "m", Digit[c + 1]>>

\* the system as constructed: NCams cameras, the first with resolution res0
Constructed(res0) ==
    [i \in 1..NCams |->
        NewCamera(CamName(i - 1), IF i = 1 THEN res0 ELSE <<10, 10>>)]

NoFile == [exists |-> FALSE]
NoDisk == [i \in 1..NCams |-> NoFile]

\* the candidate point line_dist returns beside the distance D
CandPoint(D) == <<2 * D, 4 - D, D * D + 1>>
LDVals0 == [D |-> 0, X |-> CandPoint(0)]
LDVals == { [D |-> D, X |-> CandPoint(D)] : D \in 0..MaxD }

\* the elements of a set of integers in ascending order
RECURSIVE SortedSeq(_)
SortedSeq(S) ==
    IF S = {} THEN <<>>
    ELSE LET m == CHOOSE x \in S : \A y \in S : x <= y
         IN  <<m>> \o SortedSeq(S \ {m})

\* list(coords.keys()) for the mappings over the keys K with at most MaxN
\* entries, in ascending order: the order CPython 2 iterates small
\* non-negative int keys in, and CPython 3 a mapping filled in camera order
KeySeqs(K) == { SortedSeq(S) : S \in { T \in SUBSET K : Cardinality(T) <= MaxN } }

\* the pixel camera key k observes
Observed(k) == Pixel(10 + 2 * k, 10, 1)

CallArgs(ks, dm, t) ==
    [ keys |-> ks,
      coords |-> [k \in Range(ks) |-> Observed(k)],
      d_max |-> dm,
      ld |-> t ]

NoCall == CallArgs(<<>>, 0, <<>>)

\* ------------------------------------------------------------------ actions
\* external assignment to a pose field between uses
SetTheta(c, th) ==
    /\ cams[c + 1].theta # th
    /\ cams' = [cams EXCEPT ![c + 1].theta = th]
    /\ last' = [op |-> "set_theta", cam |-> c]
    /\ UNCHANGED <<disk, args>>

SetO(c, o) ==
    /\ cams[c + 1].O # o
    /\ cams' = [cams EXCEPT ![c + 1].O = o]
    /\ last' = [op |-> "set_O", cam |-> c]
    /\ UNCHANGED <<disk, args>>

SetF(c, f) ==
    /\ cams[c + 1].f # f
    /\ cams' = [cams EXCEPT ![c + 1].f = f]
    /\ last' = [op |-> "set_f", cam |-> c]
    /\ UNCHANGED <<disk, args>>

CalcR(c) ==
    /\ cams' = [cams EXCEPT ![c + 1] = calc_R(cams[c + 1])]
    /\ last' = [op |-> "calc_R", cam |-> c]
    /\ UNCHANGED <<disk, args>>

\* the pixels get_r is called with: observed ones, and the one the
\* projection just before returned
RayInputs(c) ==
    ObsPix \cup
        (IF last.op = "projection" /\ last.cam = c /\ last.ret.d # 0
         THEN {last.ret} ELSE {})

GetR(c, px) ==
    \E g \in {get_r(cams[c + 1], px)} :
        /\ cams' = [cams EXCEPT ![c + 1] = g.cam]
        /\ last' = [ op |-> "get_r", cam |-> c, px |-> px,
                     pre |-> cams[c + 1], Rread |-> g.Rread, r |-> g.r,
                     prev |-> IF last.op = "projection" /\ last.cam = c
                                 /\ last.ret = px
                              THEN last ELSE [op |-> "none"] ]
        /\ UNCHANGED <<disk, args>>

Projection(c, x, py) ==
    \E g \in {projection(cams[c + 1], x, py)} :
        /\ cams' = [cams EXCEPT ![c + 1] = g.cam]
        /\ last' = [ op |-> "projection", cam |-> c, x |-> x, py |-> py,
                     pre |-> cams[c + 1], Rread |-> g.Rread, ret |-> g.ret ]
        /\ UNCHANGED <<disk, args>>

Save(c) ==
    /\ disk' = [disk EXCEPT ![c + 1] =
                  [ exists |-> TRUE, text |-> SaveText(cams[c + 1]),
                    wrote |-> [ O |-> cams[c + 1].O,
                                theta |-> cams[c + 1].theta,
                                f |-> cams[c + 1].f ] ]]
    /\ last' = [op |-> "save", cam |-> c]
    /\ UNCHANGED <<cams, args>>

\* load of a directory save never wrote to: open() raises
LoadMissing(c) ==
    /\ ~disk[c + 1].exists
    /\ last' = [op |-> "load", cam |-> c, err |-> "IOError"]
    /\ UNCHANGED <<cams, disk, args>>

Load(c) ==
    /\ disk[c + 1].exists
    /\ \E g \in {load(cams[c + 1], disk[c + 1].text)} :
           /\ cams' = [cams EXCEPT ![c + 1] = g.cam]
           /\ last' = [op |-> "load", cam |-> c, err |-> g.err]
    /\ UNCHANGED <<disk, args>>

StereoMatch ==
    \E g \in {stereo_match(cams, args)} :
        /\ cams' = g.cams
        /\ last' = [ op |-> "stereo_match", pre |-> cams, out |-> g.out,
                     err |-> g.err, ret |-> g.ret, calls |-> g.calls ]
        /\ UNCHANGED <<disk, args>>

\* ------------------------------------------------------------ specifications
\* one stereo_match call on the system as constructed, over every input
Init ==
    /\ cams = Constructed(<<10, 10>>)
    /\ disk = NoDisk
    /\ \E ks \in KeySeqs(ObsKeys), dm \in 0..MaxD :
          \E t \in [UPairs(Range(ks)) -> LDVals] : args = CallArgs(ks, dm, t)
    /\ last = [op |-> "init"]

Next == StereoMatch

Spec == Init /\ [][Next]_vars

\* stereo_match calls interleaved with changes of the cameras' angles
InitPose ==
    /\ cams = Constructed(<<10, 10>>)
    /\ disk = NoDisk
    /\ \E ks \in KeySeqs(KeySet) :
          args = CallArgs(ks, 0, [p \in UPairs(Range(ks)) |-> LDVals0])
    /\ last = [op |-> "init"]

NextPose ==
    \/ \E c \in CamIds, th \in PoseThetas : SetTheta(c, th)
    \/ \E c \in CamIds : CalcR(c)
    \/ StereoMatch

SpecPose == InitPose /\ [][NextPose]_vars

\* the life of one camera object
InitCam ==
    /\ \E res \in ResSet : cams = Constructed(res)
    /\ disk = NoDisk
    /\ args = NoCall
    /\ last = [op |-> "init"]

NextCam ==
    \E c \in SoloCams :
        \/ \E th \in ThetaSet : SetTheta(c, th)
        \/ \E o \in OSet : SetO(c, o)
        \/ \E f \in FSet : SetF(c, f)
        \/ CalcR(c)
        \/ \E px \in RayInputs(c) : GetR(c, px)
        \/ \E x \in LabPoints, py \in PyVersions : Projection(c, x, py)
        \/ Save(c)
        \/ LoadMissing(c)
        \/ Load(c)

SpecCam == InitCam /\ [][NextCam]_vars

\* ------------------------------------------------------------------- claims
Keys == Range(args.keys)
NObs == Len(args.keys)

\* the unordered pairs of observed cameras whose distance is within d_max
Kept == { p \in UPairs(Keys) : args.ld[p].D <= args.d_max }

Called == last.op = "stereo_match"
Returned == Called /\ last.out = "return"
Found == Returned /\ last.ret.kind = "found"

RECURSIVE SumD(_)
SumD(P) == IF P = {} THEN 0
           ELSE LET p == CHOOSE q \in P : TRUE IN args.ld[p].D + SumD(P \ {p})

RECURSIVE SumX(_)
SumX(P) == IF P = {} THEN <<0, 0, 0>>
           ELSE LET p == CHOOSE q \in P : TRUE
                IN  VecAdd(args.ld[p].X, SumX(P \ {p}))

\* the orders a mapping with these keys can be iterated in
Perms(s) ==
    { q \in [1..Len(s) -> Range(s)] :
        \A i, j \in 1..Len(s) : i # j => q[i] # q[j] }

\* a key that self.cameras[k] does not resolve: outside -len .. len-1
Unresolved(k) == k < -Len(cams) \/ k >= Len(cams)

\* C1: stereo_match returns None if and only if no unordered pair of
\* observed cameras has a distance D <= d_max; the threshold is inclusive,
\* so a pair at exactly d_max is kept and a result is returned.
C1_NoneIffNoPairWithin ==
    Returned =>
        /\ (last.ret.kind = "none") <=> (Kept = {})
        /\ (\E p \in UPairs(Keys) : args.ld[p].D = args.d_max)
               => last.ret.kind = "found"

\* a result returned where every kept pair lies exactly at d_max and another
\* pair lies beyond it
C1_Witness ==
    /\ Found
    /\ \A p \in Kept : args.ld[p].D = args.d_max
    /\ \E p \in UPairs(Keys) : args.ld[p].D > args.d_max

\* C2: the returned identifier collection is exactly the set of keys that
\* appear in at least one kept pair, each once, and no key whose pairs were
\* all rejected.
C2_IdsAreKeysOfKeptPairs ==
    Found => last.ret.cams = UNION Kept

\* three observations, two kept pairs sharing a key, the third pair rejected
C2_Witness ==
    /\ Found
    /\ NObs = 3
    /\ Cardinality(Kept) = 2
    /\ Cardinality(last.ret.cams) = 3

\* C3: the returned point and distance are the arithmetic means, over the
\* kept pairs, of their candidate points and distances; with exactly two
\* observations they are that pair's point and distance, and the id set is
\* both keys.
C3_MeansOverKeptPairs ==
    Found =>
        /\ last.ret.X = VecOver(SumX(Kept), Cardinality(Kept))
        /\ last.ret.dist = Rat(SumD(Kept), Cardinality(Kept))
        /\ NObs = 2 =>
              /\ last.ret.X = VecOver(args.ld[Keys].X, 1)
              /\ last.ret.dist = Rat(args.ld[Keys].D, 1)
              /\ last.ret.cams = Keys

\* three kept pairs of unequal distances: the mean is none of the candidates
C3_Witness ==
    /\ Found
    /\ NObs = 3
    /\ \E p, q \in Kept : args.ld[p].D # args.ld[q].D
    /\ last.ret.dist.d # 1

\* C8: the same entries iterated in any other key order give the same
\* outcome: both None, or the same point, id set and mean distance.
C8_OrderInvariant ==
    Called =>
        \A q \in Perms(args.keys) :
            \A o \in {stereo_match(last.pre, [args EXCEPT !.keys = q])} :
                o.out = last.out /\ o.ret = last.ret

\* a result averaged over pairs with different candidates, and an order of
\* the keys other than the one iterated
C8_Witness ==
    /\ Found
    /\ NObs = 3
    /\ \E p, q \in Kept : args.ld[p].X # args.ld[q].X
    /\ \E q \in Perms(args.keys) :
          /\ q[1] # args.keys[1]
          /\ stereo_match(last.pre, [args EXCEPT !.keys = q]).ret = last.ret

\* C9: with N >= 2 entries (all resolving to cameras) line_dist is evaluated
\* exactly N*(N-1)/2 times: once for every unordered pair of distinct keys,
\* never for a key with itself, never for a pair in both orders.
C9_EachPairOnce ==
    (Returned /\ NObs >= 2) =>
        /\ Len(last.calls) = (NObs * (NObs - 1)) \div 2
        /\ \A i \in 1..Len(last.calls) : last.calls[i][1] # last.calls[i][2]
        /\ \A p \in UPairs(Keys) :
              Cardinality({ i \in 1..Len(last.calls) :
                              {last.calls[i][1], last.calls[i][2]} = p }) = 1

\* a completed call on three observations: three evaluations
C9_Witness ==
    /\ Returned
    /\ NObs = 3
    /\ Len(last.calls) = 3

\* C5 as stated: every precondition violation (fewer than 2 observations, or
\* a key that resolves to no camera) is surfaced as an error, never as a
\* normal return.
C5_ViolationsRaise ==
    (Called /\ (NObs < 2 \/ \E k \in Keys : Unresolved(k))) => last.out = "raise"

\* C5 amended: with at least 2 observations a key that resolves to no camera
\* raises; with fewer than 2 observations nothing is looked up and None is
\* returned, whatever the key.
C5_RaisesOnlyWhenLookedUp ==
    Called =>
        /\ (NObs >= 2 /\ \E k \in Keys : Unresolved(k)) => last.out = "raise"
        /\ (NObs >= 2 /\ \A k \in Keys : ~Unresolved(k)) => last.out = "return"
        /\ NObs < 2 =>
              /\ last.out = "return"
              /\ last.ret.kind = "none"
              /\ last.calls = <<>>

\* one observation under a key that resolves to no camera: None, no error
C5_Witness ==
    /\ Called
    /\ NObs = 1
    /\ \E k \in Keys : Unresolved(k)
    /\ last.out = "return"
    /\ last.ret.kind = "none"

\* C6 as stated: a stereo_match call leaves O, theta, f, resolution and R of
\* every camera as they were, in every reachable camera state.
C6_CamerasUntouched ==
    Called => cams = last.pre

\* C6 amended: the call leaves O, theta, f, resolution and name of every
\* camera as they were; R is afterwards either as it was or calc_R(theta),
\* so a camera whose R was current is untouched; after a completed call on
\* at least 2 observations every observed camera's R is current.
C6_OnlyStaleMatricesChange ==
    Called =>
        /\ \A i \in 1..Len(cams) :
              /\ [cams[i] EXCEPT !.R = last.pre[i].R] = last.pre[i]
              /\ cams[i].R = last.pre[i].R \/ cams[i].R = RotMat(cams[i].theta)
              /\ last.pre[i].R = RotMat(last.pre[i].theta) => cams[i] = last.pre[i]
        /\ (Returned /\ NObs >= 2) =>
              \A k \in Keys :
                  cams[Lookup(k, Len(cams)).idx + 1].R
                      = RotMat(cams[Lookup(k, Len(cams)).idx + 1].theta)

\* a call made while a camera's theta had changed since its R was computed:
\* that R is replaced by the current one
C6_Witness ==
    /\ Called
    /\ \E i \in 1..Len(cams) :
          /\ last.pre[i].R # RotMat(last.pre[i].theta)
          /\ cams[i].R # last.pre[i].R
          /\ cams[i].R = RotMat(cams[i].theta)

\* C4 as stated: whenever get_r or projection reads R, R is the matrix
\* calc_R would compute from the camera's current theta.
C4_NeverReadStale ==
    last.op \in {"get_r", "projection"} =>
        last.Rread = RotMat(cams[last.cam + 1].theta)

\* C4 amended: get_r reads R = calc_R(theta), whatever was stored before;
\* projection reads R as stored and recomputes nothing, so what it reads is
\* current only if the stored matrix was.
C4_OnlyGetRRefreshes ==
    /\ last.op = "get_r" => last.Rread = RotMat(cams[last.cam + 1].theta)
    /\ last.op = "projection" =>
          /\ last.Rread = last.pre.R
          /\ cams[last.cam + 1] = last.pre

\* get_r called while the stored matrix was stale: it reads the current one
C4_Witness ==
    /\ last.op = "get_r"
    /\ last.pre.R # RotMat(last.pre.theta)
    /\ last.Rread = RotMat(cams[last.cam + 1].theta)

\* C7: for a camera whose R is current and a lab point x off its focal
\* plane, the pixel projection(x) fed to get_r gives a direction r with
\* x - O a multiple of r, for any integer resolution.
C7_RoundTrip ==
    ( /\ last.op = "get_r"
      /\ last.prev.op = "projection"
      /\ last.prev.ret.d # 0
      /\ last.prev.Rread = RotMat(last.prev.pre.theta) )
    => Cross(VecSub(last.prev.x, last.pre.O), last.r.num) = <<0, 0, 0>>

\* C10: load after save restores O, theta and f to the values save wrote.
C10_SaveLoadRoundTrip ==
    (last.op = "load" /\ last.err = "none") =>
        /\ cams[last.cam + 1].O = disk[last.cam + 1].wrote.O
        /\ cams[last.cam + 1].theta = disk[last.cam + 1].wrote.theta
        /\ cams[last.cam + 1].f = disk[last.cam + 1].wrote.f

====
